---- MODULE Spec2Model ----
(***************************************************************************)
(* Model of langchain_community/llms/oci_data_science_model_deployment_    *)
(* endpoint.py: the SSE stream decoder (_parse_stream, _parse_stream_async,*)
(* _parse_stream_line) and the retry-and-refresh controller                *)
(* (completion_with_retry, acompletion_with_retry, _check_response,        *)
(* _refresh_signer, _headers).                                             *)
(*                                                                         *)
(* Specifications:                                                         *)
(*   SpecDecoder  both decoders driven over the same bounded raw input.    *)
(*   SpecStream   the decoders together with the loops of _stream and      *)
(*                _astream that turn each payload into a chunk.            *)
(*   Spec         one logical call made in the blocking and in the         *)
(*                non-blocking form against the same scripted server.      *)
(*   SpecCalls    Spec, followed by later calls on the same client.        *)
(*   SpecThreads  two threads calling the blocking controller on one       *)
(*                client at the same time.                                 *)
(***************************************************************************)
EXTENDS Integers, Sequences, FiniteSets, TLC

VARIABLES
    \* ---- stream decoder (SpecDecoder) ----
    src_lines,   \* the raw byte lines the source will produce, in order
    dpos,        \* per decoder: number of raw lines read from the source
    yielded,     \* per decoder: the payloads yielded so far, in order
    dpc,         \* per decoder: "iterating" | "exhausted" | "raised"
                 \* ("idle" while a call has not opened its stream)
    \* ---- the loops of _stream / _astream (SpecStream) ----
    run_manager, \* the callback manager the caller passed: "none", or the
                 \* kind of its on_llm_new_token ("plain" | "coroutine")
    chunks,      \* per form: the chunks yielded to the caller, in order
    tokens,      \* per form: the texts given to on_llm_new_token, in order
    spc,         \* per form: the loop is "idle" | "running" | "raised" |
                 \* "read_timeout" (the read of the next line timed out)
    generation,  \* per form: what _generate / _agenerate has accumulated from
                 \* the chunks, and the dispatches those chunks came from
    \* ---- retry-and-refresh controller (Spec) ----
    max_retries, \* self.max_retries
    signer,      \* self.auth.get("signer"): "none" | "static" | "refreshable"
    entry,       \* the entry point called: "_generate" | "_stream" |
                 \* "completion_with_retry" (the controller called directly)
    stream,      \* the stream argument the entry point passes to the call
    script,      \* server outcome of the i-th transport dispatch of a call
    streaming,   \* per form: self.streaming of the client
    cred,        \* per form: version of the signer's security token
    pc,          \* per form: position of the call
    attempts,    \* per form: invocations of _completion_with_retry
    dispatched,  \* per form: one record per transport dispatch, in order
    refreshes,   \* per form: calls of signer.refresh_security_token()
    result,      \* per form: what the caller (or stream consumer) received
    configured,  \* the streaming value the client was constructed with
    callno,      \* number of the current call on the client
    stdout,      \* per form: what the call's print()s wrote to standard output
    debuglog,    \* per form: the records the call gave to logger.debug
    \* ---- concurrent callers of one client (SpecThreads) ----
    tpc,         \* per thread: position of the thread's call
    tattempts,   \* per thread: invocations of _completion_with_retry
    trequest,    \* per thread: the request the attempt built and signed
    tresponse,   \* per thread: the response request.post returned
    tprinted,    \* per thread: writes of the attempt's print() calls so far
    serialized   \* the signer lets one refresh_security_token() run at a time

dvars == <<src_lines, dpos, yielded, dpc>>
svars == <<run_manager, chunks, tokens, spc, generation>>
cvars == <<max_retries, signer, entry, stream, script, streaming, cred, pc,
           attempts, dispatched, refreshes, result>>
kvars == <<configured, callno>>
ovars == <<stdout, debuglog>>
tvars == <<tpc, tattempts, trequest, tresponse, tprinted, serialized>>
vars == <<src_lines, dpos, yielded, dpc, run_manager, chunks, tokens, spc,
          generation,
          max_retries, signer, entry, stream, script, streaming, cred, pc,
          attempts, dispatched, refreshes, result, configured, callno,
          stdout, debuglog, tpc, tattempts, trequest, tresponse, tprinted,
          serialized>>

Forms == {"sync", "async"}
Threads == {1, 2}

-----------------------------------------------------------------------------
(***************************************************************************)
(* Bytes and text.  A raw line is a sequence of byte values; a str is a    *)
(* sequence of one-character strings.                                      *)
(***************************************************************************)

\* The ASCII part of UTF-8 used by the inputs: byte value -> character.
\* A control character that has no escape here is written as Python
\* writes it ("\\x1f" is the one character U+001F).
AsciiTable ==
    (9 :> "\t") @@ (10 :> "\n") @@ (13 :> "\r") @@ (32 :> " ") @@
    (11 :> "\\x0b") @@ (12 :> "\\x0c") @@ (28 :> "\\x1c") @@
    (29 :> "\\x1d") @@ (30 :> "\\x1e") @@ (31 :> "\\x1f") @@
    (58 :> ":") @@ (65 :> "A") @@ (66 :> "B") @@ (67 :> "C") @@
    (68 :> "D") @@ (69 :> "E") @@ (78 :> "N") @@ (79 :> "O") @@
    (84 :> "T") @@ (91 :> "[") @@ (93 :> "]") @@ (97 :> "a") @@
    (100 :> "d") @@ (101 :> "e") @@ (116 :> "t") @@ (118 :> "v") @@
    (34 :> "\"") @@ (44 :> ",") @@ (99 :> "c") @@ (104 :> "h") @@
    (105 :> "i") @@ (111 :> "o") @@ (115 :> "s") @@ (120 :> "x") @@
    (123 :> "{") @@ (125 :> "}")

\* bytes.strip() removes ASCII whitespace: space, \t, \n, \r, \x0b, \x0c.
BytesWhitespace == {32, 9, 10, 13, 11, 12}

\* str.lstrip() removes the characters for which str.isspace() is true:
\* the six that bytes.strip() removes, the separators U+001C to U+001F,
\* U+0085 and U+00A0 (and the space separators beyond Latin-1, which no
\* line of the inputs contains).
StrWhitespace ==
    {" ", "\t", "\n", "\r", "\\x0b", "\\x0c", "\\x1c", "\\x1d", "\\x1e",
     "\\x1f", "\\x85", "\\xa0"}

RECURSIVE bytes_lstrip(_)
bytes_lstrip(b) ==
    IF b # <<>> /\ Head(b) \in BytesWhitespace THEN bytes_lstrip(Tail(b)) ELSE b

RECURSIVE bytes_rstrip(_)
bytes_rstrip(b) ==
    IF b # <<>> /\ b[Len(b)] \in BytesWhitespace
    THEN bytes_rstrip(SubSeq(b, 1, Len(b) - 1))
    ELSE b

\* line.strip() on bytes (line 311)
bytes_strip(b) == bytes_rstrip(bytes_lstrip(b))

\* line.decode("utf-8") raises UnicodeDecodeError on an invalid byte (line 313)
decode_raises(b) == \E i \in 1..Len(b) : b[i] \notin DOMAIN AsciiTable

\* line.decode("utf-8") on valid input (line 313)
decode(b) == [i \in 1..Len(b) |-> AsciiTable[b[i]]]

\* str.lower(), character by character (line 317)
LowerChar(c) ==
    CASE c = "A" -> "a" [] c = "B" -> "b" [] c = "C" -> "c" [] c = "D" -> "d"
      [] c = "E" -> "e" [] c = "N" -> "n" [] c = "O" -> "o" [] c = "T" -> "t"
      [] OTHER -> c

lower(s) == [i \in 1..Len(s) |-> LowerChar(s[i])]

\* str.startswith (line 317)
startswith(s, p) == Len(s) >= Len(p) /\ SubSeq(s, 1, Len(p)) = p

\* the `in` operator on str: sub occurs in s (line 314)
contains(s, sub) ==
    \E i \in 1..(Len(s) - Len(sub) + 1) : SubSeq(s, i, i + Len(sub) - 1) = sub

\* a remainder returned as it is, leading whitespace included
str_lstrip_kept(s) == s

RECURSIVE str_lstrip(_)
\* str.lstrip() (line 318)
str_lstrip(s) ==
    IF s # <<>> /\ Head(s) \in StrWhitespace THEN str_lstrip(Tail(s)) ELSE s

DoneMarker == <<"[", "D", "O", "N", "E", "]">>
DataPrefix == <<"d", "a", "t", "a", ":">>

-----------------------------------------------------------------------------
(***************************************************************************)
(* _parse_stream_line.  Optional[str] is a sequence of length <= 1: <<>>   *)
(* is None and <<s>> is the str s.                                         *)
(***************************************************************************)

None == <<>>
Some(s) == <<s>>

\* _parse_stream_line raises (UnicodeDecodeError) instead of returning
_parse_stream_line_raises(line) ==
    LET stripped == bytes_strip(line)
    IN  stripped # <<>> /\ decode_raises(stripped)

_parse_stream_line(line) ==
    LET stripped == bytes_strip(line)
    IN  IF stripped # <<>>
        THEN LET text == decode(stripped)
             IN  IF contains(text, DoneMarker)
                 THEN None
                 ELSE IF startswith(lower(text), DataPrefix)
                      THEN Some(str_lstrip(SubSeq(text, 6, Len(text))))
                      ELSE None
        ELSE None

-----------------------------------------------------------------------------
(***************************************************************************)
(* The raw lines the decoders are driven over.                             *)
(***************************************************************************)

\* b"data: A"
LineDataA == <<100, 97, 116, 97, 58, 32, 65>>
\* b""
LineBlank == <<>>
\* b"data:  B"
LineDataB == <<100, 97, 116, 97, 58, 32, 32, 66>>
\* b"data: [DONE]"
LineDone == <<100, 97, 116, 97, 58, 32, 91, 68, 79, 78, 69, 93>>
\* b"data: C"
LineDataC == <<100, 97, 116, 97, 58, 32, 67>>
\* b"DATA:A\n" (upper-case prefix, newline kept by the line reader)
LineUpper == <<68, 65, 84, 65, 58, 65, 10>>
\* b"data: \n" (the prefix followed only by whitespace)
LinePrefixOnly == <<100, 97, 116, 97, 58, 32, 10>>
\* b"data:\x1f" (the prefix followed by a separator that str.lstrip()
\* removes and bytes.strip() keeps)
LineUnitSep == <<100, 97, 116, 97, 58, 31>>
\* b": a" (an SSE comment line)
LineComment == <<58, 32, 97>>
\* b" [DONE] a" (the marker inside a line that has no data: prefix)
LineBareDone == <<32, 91, 68, 79, 78, 69, 93, 32, 97>>
\* b"data:\xff" (0xFF starts no UTF-8 sequence)
LineInvalid == <<100, 97, 116, 97, 58, 255>>

RawLines ==
    {LineDataA, LineBlank, LineDataB, LineDone, LineDataC, LineUpper,
     LinePrefixOnly, LineUnitSep, LineComment, LineBareDone, LineInvalid}

\* The stream of the specification's decoding example.
ExampleLines == <<LineDataA, LineBlank, LineDataB, LineDone, LineDataC>>

MaxLines == 3

RECURSIVE SeqsUpTo(_, _)
SeqsUpTo(S, n) ==
    IF n = 0 THEN {<<>>}
    ELSE LET shorter == SeqsUpTo(S, n - 1)
         IN  shorter \cup {Append(q, x) : q \in shorter, x \in S}

StreamInputs == SeqsUpTo(RawLines, MaxLines) \cup {ExampleLines}

\* Event lines whose payload is JSON text.
\* b'data: {"choices":[{"text":"A"}]}'
LineJsonA ==
    <<100, 97, 116, 97, 58, 32, 123, 34, 99, 104, 111, 105, 99, 101, 115, 34,
      58, 91, 123, 34, 116, 101, 120, 116, 34, 58, 34, 65, 34, 125, 93, 125>>
\* b'data:{"choices":[{"text":"B"}]}'
LineJsonB ==
    <<100, 97, 116, 97, 58, 123, 34, 99, 104, 111, 105, 99, 101, 115, 34,
      58, 91, 123, 34, 116, 101, 120, 116, 34, 58, 34, 66, 34, 125, 93, 125>>
\* b'data: {}' (JSON without the choices field)
LineJsonNoChoices == <<100, 97, 116, 97, 58, 32, 123, 125>>
\* b'data: {"choices":[{}]}' (a choice without the text field)
LineJsonNoText ==
    <<100, 97, 116, 97, 58, 32, 123, 34, 99, 104, 111, 105, 99, 101, 115, 34,
      58, 91, 123, 125, 93, 125>>
\* b'data: {"choices":["A"]}' (a choice that is not an object)
LineJsonBadChoice ==
    <<100, 97, 116, 97, 58, 32, 123, 34, 99, 104, 111, 105, 99, 101, 115, 34,
      58, 91, 34, 65, 34, 93, 125>>

\* The lines the loops of _stream / _astream are driven over: well-formed
\* events, events whose payload does not parse, and a blank line.
EventLines ==
    {LineJsonA, LineJsonB, LineDataA, LineJsonNoChoices, LineJsonBadChoice,
     LineBlank}

EventInputs == SeqsUpTo(EventLines, MaxLines)

-----------------------------------------------------------------------------
(***************************************************************************)
(* The decoders: one action is one iteration of the generator's loop.      *)
(***************************************************************************)

\* A generator runs only while its consumer is asking for the next item:
\* when the loop of _stream / _astream drives decoder m, the decoder is
\* suspended at its yield until the loop has handled the payload.
Resumed(m) ==
    spc[m] # "idle" => (spc[m] = "running" /\ Len(chunks[m]) = Len(yielded[m]))

\* _parse_stream: `for line in lines` / `if _line is not None: yield _line`
_parse_stream ==
    /\ dpc["sync"] = "iterating"
    /\ Resumed("sync")
    /\ IF dpos["sync"] = Len(src_lines)
       THEN /\ dpc' = [dpc EXCEPT !["sync"] = "exhausted"]
            /\ UNCHANGED <<dpos, yielded>>
       ELSE LET line == src_lines[dpos["sync"] + 1]
            IN  /\ dpos' = [dpos EXCEPT !["sync"] = @ + 1]
                /\ IF _parse_stream_line_raises(line)
                   THEN /\ dpc' = [dpc EXCEPT !["sync"] = "raised"]
                        /\ UNCHANGED yielded
                   ELSE LET _line == _parse_stream_line(line)
                        IN  /\ yielded' =
                                 IF _line # None
                                 THEN [yielded EXCEPT !["sync"] = Append(@, _line[1])]
                                 ELSE yielded
                            /\ UNCHANGED dpc
    /\ UNCHANGED src_lines
    /\ UNCHANGED svars
    /\ UNCHANGED <<cvars, kvars, ovars, tvars>>

\* an async decoder that ends its loop at the first line without a payload
_parse_stream_async_breaks ==
    /\ dpc["async"] = "iterating"
    /\ Resumed("async")
    /\ IF dpos["async"] = Len(src_lines)
       THEN /\ dpc' = [dpc EXCEPT !["async"] = "exhausted"]
            /\ UNCHANGED <<dpos, yielded>>
       ELSE LET line == src_lines[dpos["async"] + 1]
            IN  /\ dpos' = [dpos EXCEPT !["async"] = @ + 1]
                /\ IF _parse_stream_line_raises(line)
                   THEN /\ dpc' = [dpc EXCEPT !["async"] = "raised"]
                        /\ UNCHANGED yielded
                   ELSE LET _line == _parse_stream_line(line)
                        IN  IF _line # None
                            THEN /\ yielded' = [yielded EXCEPT !["async"] =
                                                    Append(@, _line[1])]
                                 /\ UNCHANGED dpc
                            ELSE /\ dpc' = [dpc EXCEPT !["async"] = "exhausted"]
                                 /\ UNCHANGED yielded
    /\ UNCHANGED src_lines
    /\ UNCHANGED svars
    /\ UNCHANGED <<cvars, kvars, ovars, tvars>>

\* _parse_stream_async: `async for line in lines` / `if _line is not None: yield _line`
_parse_stream_async ==
    /\ dpc["async"] = "iterating"
    /\ Resumed("async")
    /\ IF dpos["async"] = Len(src_lines)
       THEN /\ dpc' = [dpc EXCEPT !["async"] = "exhausted"]
            /\ UNCHANGED <<dpos, yielded>>
       ELSE LET line == src_lines[dpos["async"] + 1]
            IN  /\ dpos' = [dpos EXCEPT !["async"] = @ + 1]
                /\ IF _parse_stream_line_raises(line)
                   THEN /\ dpc' = [dpc EXCEPT !["async"] = "raised"]
                        /\ UNCHANGED yielded
                   ELSE LET _line == _parse_stream_line(line)
                        IN  /\ yielded' =
                                 IF _line # None
                                 THEN [yielded EXCEPT !["async"] = Append(@, _line[1])]
                                 ELSE yielded
                            /\ UNCHANGED dpc
    /\ UNCHANGED src_lines
    /\ UNCHANGED svars
    /\ UNCHANGED <<cvars, kvars, ovars, tvars>>

\* No decoder is running (the state of the decoder variables under Spec).
DecoderIdle ==
    /\ src_lines = <<>>
    /\ dpos = [m \in Forms |-> 0]
    /\ yielded = [m \in Forms |-> <<>>]
    /\ dpc = [m \in Forms |-> "exhausted"]

\* The loops of _stream / _astream are not running.
StreamLoopIdle ==
    /\ run_manager = "none"
    /\ chunks = [f \in Forms |-> <<>>]
    /\ tokens = [f \in Forms |-> <<>>]
    /\ spc = [f \in Forms |-> "idle"]
    /\ generation = [f \in Forms |-> [text |-> <<>>, from |-> {}]]

\* No thread is calling the client (the state of the thread variables
\* outside SpecThreads).
ThreadsIdle ==
    /\ tpc = [t \in Threads |-> "returned"]
    /\ tattempts = [t \in Threads |-> 0]
    /\ trequest = [t \in Threads |-> None]
    /\ tresponse = [t \in Threads |-> None]
    /\ tprinted = [t \in Threads |-> 0]
    /\ serialized = FALSE

\* No call is in progress (the state of the controller variables under SpecDecoder).
ControllerIdle ==
    /\ max_retries = 0
    /\ signer = "none"
    /\ entry = "_generate"
    /\ stream = FALSE
    /\ script = <<>>
    /\ streaming = [f \in Forms |-> FALSE]
    /\ cred = [f \in Forms |-> 0]
    /\ pc = [f \in Forms |-> "returned"]
    /\ attempts = [f \in Forms |-> 0]
    /\ dispatched = [f \in Forms |-> <<>>]
    /\ refreshes = [f \in Forms |-> 0]
    /\ result = [f \in Forms |-> [kind |-> "none"]]
    /\ configured = FALSE
    /\ callno = 1
    /\ stdout = [f \in Forms |-> <<>>]
    /\ debuglog = [f \in Forms |-> <<>>]
    /\ ThreadsIdle

InitDecoder ==
    /\ src_lines \in StreamInputs
    /\ dpos = [m \in Forms |-> 0]
    /\ yielded = [m \in Forms |-> <<>>]
    /\ dpc = [m \in Forms |-> "iterating"]
    /\ StreamLoopIdle
    /\ ControllerIdle

NextDecoder == _parse_stream \/ _parse_stream_async

SpecDecoder == InitDecoder /\ [][NextDecoder]_vars

-----------------------------------------------------------------------------
(***************************************************************************)
(* The loops of _stream and _astream: each payload the decoder yields is   *)
(* turned into a chunk by _handle_sse_line, reported to the callback       *)
(* manager and yielded to the caller.                                      *)
(***************************************************************************)

PayloadA ==
    <<"{", "\"", "c", "h", "o", "i", "c", "e", "s", "\"", ":", "[", "{", "\"",
      "t", "e", "x", "t", "\"", ":", "\"", "A", "\"", "}", "]", "}">>
PayloadB ==
    <<"{", "\"", "c", "h", "o", "i", "c", "e", "s", "\"", ":", "[", "{", "\"",
      "t", "e", "x", "t", "\"", ":", "\"", "B", "\"", "}", "]", "}">>
PayloadNoChoices == <<"{", "}">>
PayloadNoText ==
    <<"{", "\"", "c", "h", "o", "i", "c", "e", "s", "\"", ":", "[", "{", "}",
      "]", "}">>
PayloadBadChoice ==
    <<"{", "\"", "c", "h", "o", "i", "c", "e", "s", "\"", ":", "[", "\"", "A",
      "\"", "]", "}">>

\* A JSON object {"choices": [...]} or {}; a choice is an object (with or
\* without a text) or a string.
JsonDict(has_choices, choices) ==
    [type |-> "dict", has_choices |-> has_choices, choices |-> choices]
JsonChoice(text) == [type |-> "dict", text |-> text]
JsonString == [type |-> "str", text |-> None]

\* json.loads on the payloads that are JSON text
JsonTable ==
    (PayloadA :> JsonDict(TRUE, <<JsonChoice(Some(<<"A">>))>>)) @@
    (PayloadB :> JsonDict(TRUE, <<JsonChoice(Some(<<"B">>))>>)) @@
    (PayloadNoChoices :> JsonDict(FALSE, <<>>)) @@
    (PayloadNoText :> JsonDict(TRUE, <<JsonChoice(None)>>)) @@
    (PayloadBadChoice :> JsonDict(TRUE, <<JsonString>>))

\* json.loads(line) raises JSONDecodeError (line 724)
json_loads_raises(line) == line \notin DOMAIN JsonTable

\* GenerationChunk(text=...)
GenerationChunk(text) == [text |-> text]

\* GenerationChunk(): the chunk with no text, where the class lets the
\* constructor be called without one
GenerationChunk_empty == [text |-> <<>>]

\* What GenerationChunk() with no argument does (line 727).  The class is
\* not part of the module: where it declares text without a default the
\* call raises a ValidationError, where text has a default it builds the
\* chunk with no text.  Every other construction in the module passes
\* text= (lines 501, 544, 673).
GenerationChunk_noargs == {"ValidationError", "empty"}

\* _process_stream_response raises ValueError: no choices key (KeyError),
\* an empty list (IndexError) or a first choice that is no dict (TypeError)
_process_stream_response_raises(response_json) ==
    \/ ~response_json.has_choices
    \/ response_json.choices = <<>>
    \/ response_json.choices[1].type # "dict"

\* _process_stream_response: choice.get("text", "")
_process_stream_response(response_json) ==
    LET choice == response_json.choices[1]
    IN  GenerationChunk(IF choice.text # None THEN choice.text[1] ELSE <<>>)

\* The except clause of _handle_sse_line is entered: json.loads or
\* _process_stream_response raised (lines 723-726).
_handle_sse_line_except(line) ==
    \/ json_loads_raises(line)
    \/ _process_stream_response_raises(JsonTable[line])

\* An exception leaves _handle_sse_line: `except Exception` catches whatever
\* the parse raises, and the GenerationChunk() of the handler itself
\* raises (line 727); g is what that call does.
_handle_sse_line_raises(line, g) ==
    _handle_sse_line_except(line) /\ g = "ValidationError"

\* _handle_sse_line when no exception leaves it: the chunk of the parse, or
\* the chunk with no text after an exception of the parse
_handle_sse_line(line) ==
    IF json_loads_raises(line)
    THEN GenerationChunk_empty
    ELSE IF _process_stream_response_raises(JsonTable[line])
         THEN GenerationChunk_empty
         ELSE _process_stream_response(JsonTable[line])

\* The run_manager argument of _stream / _astream: None, or an object whose
\* on_llm_new_token is a plain function (as CallbackManagerForLLMRun, the
\* type line 563 declares) or an `async def` (as
\* AsyncCallbackManagerForLLMRun, the type line 608 declares).
ManagerKinds == {"none", "plain", "coroutine"}

\* `run_manager.on_llm_new_token(chunk.text, chunk=chunk)` is a plain call
\* in both loops (lines 601 and 645, no await): a plain function runs and
\* the manager receives the text; an `async def` only returns a coroutine
\* object, which nothing awaits, so the manager receives nothing.
Notifies == run_manager = "plain"

\* The callback manager's on_llm_new_token is called only when the caller
\* passed one (`if run_manager:`), and runs only when the call runs it.
on_llm_new_token(seen, chunk) ==
    IF Notifies THEN Append(seen, chunk.text) ELSE seen

\* GenerationChunk.__add__ (`generation += chunk`): the texts are joined
GenerationChunk_add(left, right) == [text |-> left.text \o right.text]

\* The chunks are accumulated by the streaming branch of _generate /
\* _agenerate (lines 500-506, 543-549), which iterates _stream / _astream.
Accumulates == entry = "_generate" /\ stream

\* `generation += chunk` for the chunk just yielded to _generate in form
\* f; `from` keeps the numbers of the dispatches whose stream gave a chunk.
Accumulate(f, chunk) ==
    IF Accumulates
    THEN [generation EXCEPT
            ![f] = [text |-> GenerationChunk_add(@, chunk).text,
                    from |-> @.from \cup {Len(dispatched[f])}]]
    ELSE generation

\* _stream, lines 598-602: one iteration of
\* `for line in self._parse_stream(...)`: handle, report, yield.
_stream_loop ==
    /\ spc["sync"] = "running"
    /\ Len(chunks["sync"]) < Len(yielded["sync"])
    /\ \E g \in GenerationChunk_noargs :
        LET line == yielded["sync"][Len(chunks["sync"]) + 1]
        IN  IF _handle_sse_line_raises(line, g)
            THEN /\ spc' = [spc EXCEPT !["sync"] = "raised"]
                 /\ UNCHANGED <<chunks, tokens, generation>>
            ELSE LET chunk == _handle_sse_line(line)
                 IN  /\ tokens' = [tokens EXCEPT !["sync"] = on_llm_new_token(@, chunk)]
                     /\ chunks' = [chunks EXCEPT !["sync"] = Append(@, chunk)]
                     /\ generation' = Accumulate("sync", chunk)
                     /\ UNCHANGED spc
    /\ UNCHANGED run_manager
    /\ UNCHANGED dvars
    /\ UNCHANGED <<cvars, kvars, ovars, tvars>>

\* _astream, lines 640-646: one iteration of
\* `async for line in await self.acompletion_with_retry(...)`.
_astream_loop ==
    /\ spc["async"] = "running"
    /\ Len(chunks["async"]) < Len(yielded["async"])
    /\ \E g \in GenerationChunk_noargs :
        LET line == yielded["async"][Len(chunks["async"]) + 1]
        IN  IF _handle_sse_line_raises(line, g)
            THEN /\ spc' = [spc EXCEPT !["async"] = "raised"]
                 /\ UNCHANGED <<chunks, tokens, generation>>
            ELSE LET chunk == _handle_sse_line(line)
                 IN  /\ tokens' = [tokens EXCEPT !["async"] = on_llm_new_token(@, chunk)]
                     /\ chunks' = [chunks EXCEPT !["async"] = Append(@, chunk)]
                     /\ generation' = Accumulate("async", chunk)
                     /\ UNCHANGED spc
    /\ UNCHANGED run_manager
    /\ UNCHANGED dvars
    /\ UNCHANGED <<cvars, kvars, ovars, tvars>>

InitStream ==
    /\ src_lines \in EventInputs
    /\ dpos = [m \in Forms |-> 0]
    /\ yielded = [m \in Forms |-> <<>>]
    /\ dpc = [m \in Forms |-> "iterating"]
    /\ run_manager \in ManagerKinds
    /\ chunks = [f \in Forms |-> <<>>]
    /\ tokens = [f \in Forms |-> <<>>]
    /\ spc = [f \in Forms |-> "running"]
    /\ generation = [f \in Forms |-> [text |-> <<>>, from |-> {}]]
    /\ ControllerIdle

NextStream ==
    \/ _parse_stream
    \/ _parse_stream_async
    \/ _stream_loop
    \/ _astream_loop

SpecStream == InitStream /\ [][NextStream]_vars

-----------------------------------------------------------------------------
(***************************************************************************)
(* The server and the transport.  The i-th transport dispatch of a call    *)
(* gets script[i]; the script is extended by whichever form dispatches     *)
(* first, so both forms face the same sequence of outcomes.                *)
(***************************************************************************)

JsonTextOk == "{\"choices\":[{\"text\":\"ok\"}]}"
JsonTextHi == "{\"choices\":[{\"text\":\"hi\"}]}"

\* response.json(): the decoded body
json_loads(text) ==
    CASE text = JsonTextOk -> [choices |-> <<[text |-> "ok"]>>]
      [] text = JsonTextHi -> [choices |-> <<[text |-> "hi"]>>]

Outcomes ==
    {[kind |-> k, status |-> 0, text |-> ""] : k \in {"ConnectTimeout", "ConnectionError"}}
    \cup {[kind |-> "response", status |-> 200, text |-> t] : t \in {JsonTextOk, JsonTextHi}}
    \cup {[kind |-> "response", status |-> 302, text |-> JsonTextOk],
          [kind |-> "response", status |-> 401, text |-> "token expired"],
          [kind |-> "response", status |-> 403, text |-> "forbidden"],
          [kind |-> "response", status |-> 500, text |-> "internal error"]}

\* The library whose response object a form receives: Requests.post returns
\* a requests.Response, Requests.apost yields an aiohttp.ClientResponse.
LibOf(f) == IF f = "sync" THEN "requests" ELSE "aiohttp"

\* The exception a failed dispatch raises in each library; only the blocking
\* transport can raise requests.exceptions.ConnectTimeout.
TransportError(f, kind) ==
    IF f = "sync" THEN kind
    ELSE IF kind = "ConnectTimeout" THEN "aiohttp.ServerTimeoutError"
         ELSE "aiohttp.ClientConnectionError"

MaxRetriesBound == 3

-----------------------------------------------------------------------------
(***************************************************************************)
(* Helpers of the controller.                                              *)
(***************************************************************************)

\* _refresh_signer: True iff there is a signer with refresh_security_token
\* (which is then called).
_refresh_signer(sg) == sg = "refreshable"

\* response.raise_for_status(): requests raises HTTPError for 4xx and 5xx;
\* aiohttp raises ClientResponseError for every status >= 400.
raise_for_status(resp) ==
    IF resp.lib = "requests"
    THEN IF 400 <= resp.status /\ resp.status < 600 THEN "HTTPError" ELSE "none"
    ELSE IF resp.status >= 400 THEN "ClientResponseError" ELSE "none"

NoError == [type |-> "none", cause |-> "none", status |-> 0, text |-> ""]

\* a mis-classification: every status other than 200 is a server error
_check_response_only200(resp, sg) ==
    IF resp.status = 200
    THEN [exc |-> NoError, refreshed |-> FALSE]
    ELSE [exc |-> [type |-> "ServerError", cause |-> "HTTPError",
                   status |-> resp.status, text |-> resp.text],
          refreshed |-> FALSE]

\* _check_response: the exception it raises (NoError when it returns) and
\* whether the token was refreshed.  Only requests' HTTPError is caught.
_check_response(resp, sg) ==
    LET http_err == raise_for_status(resp)
    IN  IF http_err = "none"
        THEN [exc |-> NoError, refreshed |-> FALSE]
        ELSE IF http_err = "HTTPError"
             THEN IF resp.status = 401 /\ _refresh_signer(sg)
                  THEN [exc |-> [type |-> "TokenExpiredError", cause |-> "HTTPError",
                                 status |-> 0, text |-> ""],
                        refreshed |-> TRUE]
                  ELSE [exc |-> [type |-> "ServerError", cause |-> "HTTPError",
                                 status |-> resp.status,
                                 text |-> IF resp.lib = "requests"
                                          THEN resp.text
                                          ELSE "<bound method ClientResponse.text>"],
                        refreshed |-> FALSE]
             ELSE [exc |-> [type |-> http_err, cause |-> "none",
                            status |-> resp.status, text |-> ""],
                   refreshed |-> FALSE]

\* The except clauses of _completion_with_retry: TokenExpiredError is
\* re-raised as it is, every other exception leaves as a RuntimeError whose
\* message embeds str(err) and whose cause is err.
Reraise(e) ==
    IF e.type = "TokenExpiredError" THEN e
    ELSE [type |-> "RuntimeError", cause |-> e.type, status |-> e.status, text |-> e.text]

\* The exception types the retry decorator retries on.
RetryErrors == {"ConnectTimeout", "TokenExpiredError"}

\* create_base_retry_decorator(max_retries=...): attempts allowed in total,
\* the configured retry count plus the initial try.
MaxAttempts(mr) == mr + 1

\* a decorator built without the stop condition
_create_retry_decorator_nostop(exc_type, attempt_number, mr) ==
    exc_type \in RetryErrors

\* a decorator that allows one attempt more than the cap
_create_retry_decorator_offbyone(exc_type, attempt_number, mr) ==
    exc_type \in RetryErrors /\ attempt_number <= MaxAttempts(mr)

\* _create_retry_decorator: after a raising attempt, is another one made?
_create_retry_decorator(exc_type, attempt_number, mr) ==
    exc_type \in RetryErrors /\ attempt_number < MaxAttempts(mr)

\* _headers: the header dict (the signature is present only when is_async)
_headers(is_async, self_streaming, token) ==
    [content_type |-> "application/json",
     enable_streaming |-> self_streaming,
     accept_event_stream |-> self_streaming,
     signed |-> is_async,
     token |-> IF is_async THEN token ELSE 0]

\* Requests(headers=..., auth=signer): the blocking transport signs the
\* request with the signer when it is sent.
AuthSigned(h, sg, token) ==
    IF sg = "none" THEN h ELSE [h EXCEPT !.signed = TRUE, !.token = token]

\* headers computed once and kept for the later attempts
AttemptHeaders_reused(f) ==
    IF dispatched[f] # <<>>
    THEN dispatched[f][1].headers
    ELSE [built_in |-> attempts[f] + 1,
          h |-> IF f = "sync"
                THEN AuthSigned(_headers(FALSE, streaming[f], cred[f]), signer, cred[f])
                ELSE _headers(TRUE, streaming[f], cred[f])]

\* The headers of the request of the attempt that is starting, with the
\* number of the attempt that built them.
AttemptHeaders(f) ==
    [built_in |-> attempts[f] + 1,
     h |-> IF f = "sync"
           THEN AuthSigned(_headers(FALSE, streaming[f], cred[f]), signer, cred[f])
           ELSE _headers(TRUE, streaming[f], cred[f])]

\* The outcome of the next transport dispatch of form f is o.
Dispatches(f, o) ==
    LET i == Len(dispatched[f]) + 1
    IN  /\ o \in Outcomes
        /\ i <= Len(script) => o = script[i]
        /\ script' = IF i > Len(script) THEN Append(script, o) ELSE script

Response(f, o) == [lib |-> LibOf(f), status |-> o.status, text |-> o.text]

ErrorResult(e) ==
    [kind |-> "error", type |-> e.type, cause |-> e.cause,
     status |-> e.status, text |-> e.text]

Finished(f) == pc[f] \in {"returned", "raised"}

\* The request of a call: the body built by _construct_json_body, the
\* endpoint of the client and the timeout (no request_timeout is passed).
RequestBody == "{'prompt': 'hi'}"
Endpoint == "https://modeldeployment/predict"
DEFAULT_TIME_OUT == 300

\* What one print(x) writes to sys.stdout: the text of x, then the line
\* terminator, as two writes.
print(x) == <<x, "\n">>

\* The writes of the four print() calls after Requests.post has returned
\* (lines 169-172); no further keyword arguments are passed, so kwargs
\* prints as {}.
PrintTexts ==
    print("payload\n") \o print(RequestBody) \o print("\nkwargs\n") \o print("{}")

\* Standard output after the four print() calls of one attempt.
PrintPayload(out) == out \o PrintTexts

\* The record logger.debug receives in the `except Exception` clause
\* (lines 178-182 and 224-228).
DebugRecord ==
    [level |-> "DEBUG", payload |-> RequestBody, url |-> Endpoint,
     timeout |-> DEFAULT_TIME_OUT, stream |-> stream]

\* The debug log after an attempt that raised e: `except TokenExpiredError`
\* re-raises without logging, `except Exception` logs.
LogDebug(f, e) ==
    IF e.type \in {"none", "TokenExpiredError"} THEN debuglog
    ELSE [debuglog EXCEPT ![f] = Append(@, DebugRecord)]

\* The call came through _generate / _stream (or their async forms), whose
\* loop consumes the stream; a direct caller of the controller gets the
\* response object and is not modelled further.
HasLoop == stream /\ entry # "completion_with_retry"

\* The stream of a successful response is handed to the decoder of form f.
OpensStream(f) ==
    /\ dpc' = [dpc EXCEPT ![f] = IF HasLoop THEN "iterating" ELSE @]
    /\ spc' = [spc EXCEPT ![f] = IF HasLoop THEN "running" ELSE @]

-----------------------------------------------------------------------------
(***************************************************************************)
(* The entry points.  _generate / _agenerate delegate to _stream /         *)
(* _astream when self.streaming is set; _stream / _astream set             *)
(* self.streaming and call the controller with stream=True.                *)
(***************************************************************************)

_generate ==
    /\ pc["sync"] = "start"
    /\ entry = "_generate"
    /\ pc' = [pc EXCEPT !["sync"] = "calling"]
    /\ UNCHANGED <<max_retries, signer, entry, stream, script, streaming, cred,
                   attempts, dispatched, refreshes, result>>
    /\ UNCHANGED <<dvars, svars, kvars, ovars, tvars>>

_agenerate ==
    /\ pc["async"] = "start"
    /\ entry = "_generate"
    /\ pc' = [pc EXCEPT !["async"] = "calling"]
    /\ UNCHANGED <<max_retries, signer, entry, stream, script, streaming, cred,
                   attempts, dispatched, refreshes, result>>
    /\ UNCHANGED <<dvars, svars, kvars, ovars, tvars>>

_stream ==
    /\ pc["sync"] = "start"
    /\ entry = "_stream"
    /\ streaming' = [streaming EXCEPT !["sync"] = TRUE]
    /\ pc' = [pc EXCEPT !["sync"] = "calling"]
    /\ UNCHANGED <<max_retries, signer, entry, stream, script, cred,
                   attempts, dispatched, refreshes, result>>
    /\ UNCHANGED <<dvars, svars, kvars, ovars, tvars>>

_astream ==
    /\ pc["async"] = "start"
    /\ entry = "_stream"
    /\ streaming' = [streaming EXCEPT !["async"] = TRUE]
    /\ pc' = [pc EXCEPT !["async"] = "calling"]
    /\ UNCHANGED <<max_retries, signer, entry, stream, script, cred,
                   attempts, dispatched, refreshes, result>>
    /\ UNCHANGED <<dvars, svars, kvars, ovars, tvars>>

-----------------------------------------------------------------------------
(***************************************************************************)
(* The controller.  One action is one attempt: one run of the decorated    *)
(* _completion_with_retry followed by the decorator's decision.            *)
(***************************************************************************)

\* What the dispatch's outcome makes the attempt raise before the except
\* clauses: a transport error, or what _check_response raises.
Classify(f, o) ==
    IF o.kind = "response"
    THEN _check_response(Response(f, o), signer)
    ELSE [exc |-> [type |-> TransportError(f, o.kind), cause |-> "none",
                   status |-> 0, text |-> ""],
          refreshed |-> FALSE]

completion_with_retry ==
    /\ pc["sync"] = "calling"
    /\ \E o \in Outcomes :
        /\ Dispatches("sync", o)
        /\ LET n == attempts["sync"] + 1
               chk == Classify("sync", o)
               err == Reraise(chk.exc)
           IN  /\ attempts' = [attempts EXCEPT !["sync"] = n]
               /\ dispatched' = [dispatched EXCEPT !["sync"] =
                      Append(@, [attempt |-> n,
                                 headers |-> AttemptHeaders("sync"),
                                 cred_at |-> cred["sync"],
                                 outcome |-> o,
                                 refreshed |-> chk.refreshed])]
               /\ cred' = [cred EXCEPT !["sync"] = IF chk.refreshed THEN @ + 1 ELSE @]
               /\ refreshes' = [refreshes EXCEPT !["sync"] =
                                    IF chk.refreshed THEN @ + 1 ELSE @]
               /\ stdout' = [stdout EXCEPT !["sync"] =
                                 IF o.kind = "response" THEN PrintPayload(@) ELSE @]
               /\ debuglog' = LogDebug("sync", chk.exc)
               /\ IF chk.exc.type = "none"
                  THEN /\ pc' = [pc EXCEPT !["sync"] = "returned"]
                       /\ result' = [result EXCEPT !["sync"] =
                              IF stream
                              THEN [kind |-> "stream"]
                              ELSE [kind |-> "json", body |-> json_loads(o.text)]]
                       /\ OpensStream("sync")
                  ELSE /\ UNCHANGED <<dpc, spc>>
                       /\ IF _create_retry_decorator(err.type, n, max_retries)
                          THEN UNCHANGED <<pc, result>>
                          ELSE /\ pc' = [pc EXCEPT !["sync"] = "raised"]
                               /\ result' = [result EXCEPT !["sync"] = ErrorResult(err)]
    /\ UNCHANGED <<max_retries, signer, entry, stream, streaming>>
    /\ UNCHANGED <<src_lines, dpos, yielded, run_manager, chunks, tokens,
                   generation>>
    /\ UNCHANGED <<kvars, tvars>>

\* After one raising attempt of the non-blocking form: retry or raise.
AsyncRaise(err, n) ==
    IF _create_retry_decorator(err.type, n, max_retries)
    THEN UNCHANGED <<pc, result>>
    ELSE /\ pc' = [pc EXCEPT !["async"] = "raised"]
         /\ result' = [result EXCEPT !["async"] = ErrorResult(err)]

acompletion_with_retry ==
    /\ pc["async"] = "calling"
    /\ LET n == attempts["async"] + 1
       IN  /\ attempts' = [attempts EXCEPT !["async"] = n]
           /\ IF signer = "none"
              THEN \* _headers(is_async=True): self.auth["signer"] raises KeyError
                   /\ AsyncRaise(Reraise([type |-> "KeyError", cause |-> "none",
                                          status |-> 0, text |-> ""]), n)
                   /\ debuglog' = LogDebug("async", [type |-> "KeyError"])
                   /\ UNCHANGED <<script, dispatched, cred, refreshes>>
              ELSE IF stream
                   THEN \* the generator is returned unstarted: nothing is sent yet
                        /\ pc' = [pc EXCEPT !["async"] = "generator"]
                        /\ result' = [result EXCEPT !["async"] =
                               [kind |-> "generator", headers |-> AttemptHeaders("async")]]
                        /\ UNCHANGED <<script, dispatched, cred, refreshes, debuglog>>
                   ELSE \E o \in Outcomes :
                        /\ Dispatches("async", o)
                        /\ LET chk == Classify("async", o)
                           IN  /\ dispatched' = [dispatched EXCEPT !["async"] =
                                      Append(@, [attempt |-> n,
                                                 headers |-> AttemptHeaders("async"),
                                                 cred_at |-> cred["async"],
                                                 outcome |-> o,
                                                 refreshed |-> chk.refreshed])]
                               /\ cred' = [cred EXCEPT !["async"] =
                                               IF chk.refreshed THEN @ + 1 ELSE @]
                               /\ refreshes' = [refreshes EXCEPT !["async"] =
                                                    IF chk.refreshed THEN @ + 1 ELSE @]
                               /\ debuglog' = LogDebug("async", chk.exc)
                               /\ IF chk.exc.type = "none"
                                  THEN /\ pc' = [pc EXCEPT !["async"] = "returned"]
                                       /\ result' = [result EXCEPT !["async"] =
                                              [kind |-> "json", body |-> json_loads(o.text)]]
                                  ELSE AsyncRaise(Reraise(chk.exc), n)
    /\ UNCHANGED <<max_retries, signer, entry, stream, streaming>>
    /\ UNCHANGED <<dvars, svars, kvars, stdout, tvars>>

\* a generator that starts parsing the content without checking the status
_aiter_sse_unchecked ==
    /\ pc["async"] = "generator"
    /\ \E o \in Outcomes :
        /\ Dispatches("async", o)
        /\ o.kind = "response"
        /\ dispatched' = [dispatched EXCEPT !["async"] =
               Append(@, [attempt |-> attempts["async"],
                          headers |-> result["async"].headers,
                          cred_at |-> cred["async"],
                          outcome |-> o,
                          refreshed |-> FALSE])]
        /\ pc' = [pc EXCEPT !["async"] = "returned"]
        /\ result' = [result EXCEPT !["async"] = [kind |-> "stream"]]
        /\ OpensStream("async")
    /\ UNCHANGED <<max_retries, signer, entry, stream, streaming, attempts,
                   cred, refreshes>>
    /\ UNCHANGED <<src_lines, dpos, yielded, run_manager, chunks, tokens,
                   generation>>
    /\ UNCHANGED <<kvars, ovars, tvars>>

\* _aiter_sse, first step: the consumer of the returned generator enters the
\* context manager (the request is sent now) and the response is checked.
_aiter_sse ==
    /\ pc["async"] = "generator"
    /\ \E o \in Outcomes :
        /\ Dispatches("async", o)
        /\ LET chk == Classify("async", o)
           IN  /\ dispatched' = [dispatched EXCEPT !["async"] =
                      Append(@, [attempt |-> attempts["async"],
                                 headers |-> result["async"].headers,
                                 cred_at |-> cred["async"],
                                 outcome |-> o,
                                 refreshed |-> chk.refreshed])]
               /\ cred' = [cred EXCEPT !["async"] = IF chk.refreshed THEN @ + 1 ELSE @]
               /\ refreshes' = [refreshes EXCEPT !["async"] =
                                    IF chk.refreshed THEN @ + 1 ELSE @]
               /\ IF chk.exc.type = "none"
                  THEN /\ pc' = [pc EXCEPT !["async"] = "returned"]
                       /\ result' = [result EXCEPT !["async"] = [kind |-> "stream"]]
                       /\ OpensStream("async")
                  ELSE /\ pc' = [pc EXCEPT !["async"] = "raised"]
                       /\ result' = [result EXCEPT !["async"] = ErrorResult(chk.exc)]
                       /\ UNCHANGED <<dpc, spc>>
    /\ UNCHANGED <<max_retries, signer, entry, stream, streaming, attempts>>
    /\ UNCHANGED <<src_lines, dpos, yielded, run_manager, chunks, tokens,
                   generation>>
    /\ UNCHANGED <<kvars, ovars, tvars>>

-----------------------------------------------------------------------------
(***************************************************************************)
(* A read timeout while the open stream is iterated.  The blocking form    *)
(* iterates response.iter_lines() in _stream, after completion_with_retry  *)
(* has returned (requests raises ConnectionError for the read timeout);    *)
(* the non-blocking form iterates client_resp.content inside the generator *)
(* _aiter_sse, which the consumer runs after acompletion_with_retry has    *)
(* returned.  Either way the exception passes through the decoder and the  *)
(* loop to the caller; no retry decorator is on the stack.                 *)
(***************************************************************************)

\* a read timeout that is handed back to the controller for another attempt
_stream_read_timeout_retried ==
    /\ spc["sync"] = "running"
    /\ dpc["sync"] = "iterating"
    /\ Resumed("sync")
    /\ IF attempts["sync"] < MaxAttempts(max_retries)
       THEN /\ pc' = [pc EXCEPT !["sync"] = "calling"]
            /\ dpc' = [dpc EXCEPT !["sync"] = "idle"]
            /\ spc' = [spc EXCEPT !["sync"] = "idle"]
            /\ dpos' = [dpos EXCEPT !["sync"] = 0]
            /\ yielded' = [yielded EXCEPT !["sync"] = <<>>]
            /\ chunks' = [chunks EXCEPT !["sync"] = <<>>]
       ELSE /\ dpc' = [dpc EXCEPT !["sync"] = "raised"]
            /\ spc' = [spc EXCEPT !["sync"] = "read_timeout"]
            /\ UNCHANGED <<pc, dpos, yielded, chunks>>
    /\ UNCHANGED <<src_lines, run_manager, tokens, generation>>
    /\ UNCHANGED <<max_retries, signer, entry, stream, script, streaming, cred,
                   attempts, dispatched, refreshes, result>>
    /\ UNCHANGED <<kvars, ovars, tvars>>

\* _stream, line 598: response.iter_lines() times out while the next line
\* is awaited; the exception leaves _parse_stream and _stream.
_stream_read_timeout ==
    /\ spc["sync"] = "running"
    /\ dpc["sync"] = "iterating"
    /\ Resumed("sync")
    /\ dpc' = [dpc EXCEPT !["sync"] = "raised"]
    /\ spc' = [spc EXCEPT !["sync"] = "read_timeout"]
    /\ UNCHANGED <<src_lines, dpos, yielded, run_manager, chunks, tokens,
                   generation>>
    /\ UNCHANGED <<cvars, kvars, ovars, tvars>>

\* _aiter_sse, line 337: client_resp.content times out while the next line
\* is awaited; the exception leaves _parse_stream_async, _aiter_sse and
\* _astream.
_astream_read_timeout ==
    /\ spc["async"] = "running"
    /\ dpc["async"] = "iterating"
    /\ Resumed("async")
    /\ dpc' = [dpc EXCEPT !["async"] = "raised"]
    /\ spc' = [spc EXCEPT !["async"] = "read_timeout"]
    /\ UNCHANGED <<src_lines, dpos, yielded, run_manager, chunks, tokens,
                   generation>>
    /\ UNCHANGED <<cvars, kvars, ovars, tvars>>

\* The body of every successful streaming response of the server.
StreamBodies ==
    {<<LineJsonA, LineJsonB, LineDone>>, <<LineJsonNoText, LineJsonA>>}

EntryPoints == {"_generate", "_stream", "completion_with_retry"}

\* The stream argument of the call: _stream passes stream=True, _generate
\* delegates to _stream when self.streaming is set, a direct caller of the
\* controller passes what it likes (self.streaming is the default).
StreamArgument(e, self_streaming, a) ==
    IF e = "completion_with_retry" THEN a ELSE (e = "_stream" \/ self_streaming)

Init ==
    /\ max_retries \in 0..MaxRetriesBound
    /\ signer \in {"none", "static", "refreshable"}
    /\ entry \in EntryPoints
    /\ \E s0 \in BOOLEAN, a \in BOOLEAN :
        /\ streaming = [f \in Forms |-> s0]
        /\ configured = s0
        /\ stream = StreamArgument(entry, s0, a)
    /\ script = <<>>
    /\ cred = [f \in Forms |-> 0]
    /\ pc = [f \in Forms |->
                IF entry = "completion_with_retry" THEN "calling" ELSE "start"]
    /\ attempts = [f \in Forms |-> 0]
    /\ dispatched = [f \in Forms |-> <<>>]
    /\ refreshes = [f \in Forms |-> 0]
    /\ result = [f \in Forms |-> [kind |-> "none"]]
    /\ callno = 1
    /\ stdout = [f \in Forms |-> <<>>]
    /\ debuglog = [f \in Forms |-> <<>>]
    /\ src_lines \in StreamBodies
    /\ dpos = [m \in Forms |-> 0]
    /\ yielded = [m \in Forms |-> <<>>]
    /\ dpc = [m \in Forms |-> "idle"]
    /\ run_manager \in ManagerKinds
    /\ chunks = [f \in Forms |-> <<>>]
    /\ tokens = [f \in Forms |-> <<>>]
    /\ spc = [f \in Forms |-> "idle"]
    /\ generation = [f \in Forms |-> [text |-> <<>>, from |-> {}]]
    /\ ThreadsIdle

Next ==
    \/ _generate
    \/ _agenerate
    \/ _stream
    \/ _astream
    \/ completion_with_retry
    \/ acompletion_with_retry
    \/ _aiter_sse
    \/ _parse_stream
    \/ _parse_stream_async
    \/ _stream_loop
    \/ _astream_loop
    \/ _stream_read_timeout
    \/ _astream_read_timeout

Spec == Init /\ [][Next]_vars

-----------------------------------------------------------------------------
(***************************************************************************)
(* Later calls on the same client.  The client object (self.streaming, the *)
(* signer and its token) outlives a call; everything else starts afresh.   *)
(***************************************************************************)

MaxCalls == 2

\* The caller makes another call, in both forms, once the previous one is
\* over.
NewCall ==
    /\ callno < MaxCalls
    /\ \A f \in Forms : Finished(f)
    /\ streaming["sync"] = streaming["async"]
    /\ callno' = callno + 1
    /\ entry' \in EntryPoints
    /\ \E a \in BOOLEAN : stream' = StreamArgument(entry', streaming["sync"], a)
    /\ script' = <<>>
    /\ pc' = [f \in Forms |->
                 IF entry' = "completion_with_retry" THEN "calling" ELSE "start"]
    /\ attempts' = [f \in Forms |-> 0]
    /\ dispatched' = [f \in Forms |-> <<>>]
    /\ refreshes' = [f \in Forms |-> 0]
    /\ result' = [f \in Forms |-> [kind |-> "none"]]
    /\ stdout' = [f \in Forms |-> <<>>]
    /\ debuglog' = [f \in Forms |-> <<>>]
    /\ dpos' = [m \in Forms |-> 0]
    /\ yielded' = [m \in Forms |-> <<>>]
    /\ dpc' = [m \in Forms |-> "idle"]
    /\ chunks' = [f \in Forms |-> <<>>]
    /\ tokens' = [f \in Forms |-> <<>>]
    /\ spc' = [f \in Forms |-> "idle"]
    /\ generation' = [f \in Forms |-> [text |-> <<>>, from |-> {}]]
    /\ UNCHANGED <<max_retries, signer, streaming, cred, configured,
                   src_lines, run_manager>>
    /\ UNCHANGED tvars

NextCalls == Next \/ NewCall

SpecCalls == Init /\ [][NextCalls]_vars

-----------------------------------------------------------------------------
(***************************************************************************)
(* Two threads call the blocking controller on the same client.  They      *)
(* share self.auth["signer"], the process's standard output and the        *)
(* module's logger.  A thread can be switched out wherever it waits or     *)
(* writes: inside request.post, at each write of a print(), and inside     *)
(* refresh_security_token() (it fetches a token).  Neither _check_response *)
(* nor _refresh_signer takes a lock; the signer is an object the client is *)
(* given, and whether it lets one refresh run at a time is its own affair: *)
(* both kinds of signer are kept.                                          *)
(***************************************************************************)

\* The answers the threads' requests get: one of each kind the blocking
\* controller tells apart (no answer, success, expired token, server error).
ThreadOutcomes ==
    {o \in Outcomes : \/ o.kind = "ConnectTimeout"
                      \/ (o.status \in {200, 401, 500} /\ o.text # JsonTextHi)}

\* The requests the two threads send in all: every interleaving of the
\* writes of two attempts is followed, of the same thread or of both.
MaxThreadDispatches == 2

\* What the decorator does with thread t after its attempt raised e.
ThreadRaise(t, e) ==
    IF _create_retry_decorator(e.type, tattempts[t], max_retries)
    THEN "calling"
    ELSE "raised"

\* Thread t starts an attempt: the request is built, signed with the token
\* the signer holds now, and sent (lines 154-162); the thread then waits
\* in request.post.
thread_completion_with_retry(t) ==
    /\ tpc[t] = "calling"
    /\ attempts["sync"] < MaxThreadDispatches
    /\ tattempts' = [tattempts EXCEPT ![t] = @ + 1]
    /\ attempts' = [attempts EXCEPT !["sync"] = @ + 1]
    /\ trequest' = [trequest EXCEPT ![t] =
           Some([headers |-> AttemptHeaders("sync"), cred_at |-> cred["sync"]])]
    /\ tpc' = [tpc EXCEPT ![t] = "posting"]
    /\ UNCHANGED <<tresponse, tprinted, serialized>>
    /\ UNCHANGED <<max_retries, signer, entry, stream, script, streaming, cred,
                   pc, dispatched, refreshes, result>>
    /\ UNCHANGED <<dvars, svars, kvars, ovars>>

\* request.post of thread t ends (line 162): it returns a response, which
\* the thread goes on to print, or raises, which `except Exception` logs
\* and wraps (lines 177-185).  The dispatch is recorded with the thread,
\* the thread's own count of attempts and the token its request was signed
\* with; nothing has been refreshed yet.
thread_post(t) ==
    /\ tpc[t] = "posting"
    /\ \E o \in ThreadOutcomes :
        LET chk == Classify("sync", o)
        IN  /\ dispatched' = [dispatched EXCEPT !["sync"] =
                   Append(@, [thread |-> t,
                              attempt |-> tattempts[t],
                              headers |-> trequest[t][1].headers,
                              cred_at |-> trequest[t][1].cred_at,
                              outcome |-> o,
                              refreshed |-> FALSE])]
            /\ IF o.kind = "response"
               THEN /\ tresponse' = [tresponse EXCEPT ![t] = Some(o)]
                    /\ tprinted' = [tprinted EXCEPT ![t] = 0]
                    /\ tpc' = [tpc EXCEPT ![t] = "printing"]
                    /\ UNCHANGED debuglog
               ELSE /\ debuglog' = LogDebug("sync", chk.exc)
                    /\ tpc' = [tpc EXCEPT ![t] = ThreadRaise(t, Reraise(chk.exc))]
                    /\ UNCHANGED <<tresponse, tprinted>>
    /\ UNCHANGED <<tattempts, trequest, serialized, stdout>>
    /\ UNCHANGED <<max_retries, signer, entry, stream, script, streaming, cred,
                   pc, attempts, refreshes, result>>
    /\ UNCHANGED <<dvars, svars, kvars>>

\* The next write of the four print() calls of thread t (lines 169-172):
\* each call writes its text and then the line terminator, and every write
\* is one of its own on the shared standard output.
thread_print(t) ==
    /\ tpc[t] = "printing"
    /\ stdout' = [stdout EXCEPT !["sync"] = Append(@, PrintTexts[tprinted[t] + 1])]
    /\ tprinted' = [tprinted EXCEPT ![t] = @ + 1]
    /\ tpc' = [tpc EXCEPT ![t] =
           IF tprinted[t] + 1 = Len(PrintTexts) THEN "checking" ELSE "printing"]
    /\ UNCHANGED <<tattempts, trequest, tresponse, serialized>>
    /\ UNCHANGED <<dvars, svars, cvars, kvars, debuglog>>

\* _check_response on the response of thread t (lines 173-185, 235-263):
\* the thread returns, raises, retries, or calls
\* signer.refresh_security_token() (lines 250-254, 349).
thread_check_response(t) ==
    /\ tpc[t] = "checking"
    /\ LET chk == Classify("sync", tresponse[t][1])
       IN  /\ debuglog' = LogDebug("sync", chk.exc)
           /\ tpc' = [tpc EXCEPT ![t] =
                  IF chk.refreshed THEN "refresh_called"
                  ELSE IF chk.exc.type = "none" THEN "returned"
                  ELSE ThreadRaise(t, Reraise(chk.exc))]
    /\ UNCHANGED <<tattempts, trequest, tresponse, tprinted, serialized>>
    /\ UNCHANGED <<dvars, svars, cvars, kvars, stdout>>

\* The refresh of thread t starts inside the signer: at once, or, with a
\* signer that lets one refresh run at a time, when no other is running.
thread_refresh_security_token_begin(t) ==
    /\ tpc[t] = "refresh_called"
    /\ serialized => \A u \in Threads : tpc[u] # "refreshing"
    /\ tpc' = [tpc EXCEPT ![t] = "refreshing"]
    /\ UNCHANGED <<tattempts, trequest, tresponse, tprinted, serialized>>
    /\ UNCHANGED <<dvars, svars, cvars, kvars, ovars>>

\* The record of the dispatch whose response thread t is handling.
ThreadDispatch(t) ==
    CHOOSE i \in 1..Len(dispatched["sync"]) :
        /\ dispatched["sync"][i].thread = t
        /\ dispatched["sync"][i].attempt = tattempts[t]

\* refresh_security_token() of thread t returns: the token is replaced (the
\* dispatch is now one that was answered by a refresh), _check_response
\* raises TokenExpiredError and the decorator decides (lines 349-350, 254,
\* 175-176).
thread_refresh_security_token(t) ==
    /\ tpc[t] = "refreshing"
    /\ cred' = [cred EXCEPT !["sync"] = @ + 1]
    /\ refreshes' = [refreshes EXCEPT !["sync"] = @ + 1]
    /\ dispatched' = [dispatched EXCEPT !["sync"][ThreadDispatch(t)].refreshed = TRUE]
    /\ tpc' = [tpc EXCEPT ![t] =
           ThreadRaise(t, [type |-> "TokenExpiredError"])]
    /\ UNCHANGED <<tattempts, trequest, tresponse, tprinted, serialized>>
    /\ UNCHANGED <<max_retries, signer, entry, stream, script, streaming, pc,
                   attempts, result>>
    /\ UNCHANGED <<dvars, svars, kvars, ovars>>

\* The retry counts the two threads are run with: no retry, and one retry.
ThreadRetries == {0, 1}

InitThreads ==
    /\ max_retries \in ThreadRetries
    /\ signer \in {"none", "static", "refreshable"}
    /\ entry = "completion_with_retry"
    /\ stream = FALSE
    /\ script = <<>>
    /\ streaming = [f \in Forms |-> FALSE]
    /\ cred = [f \in Forms |-> 0]
    /\ pc = [f \in Forms |-> "returned"]
    /\ attempts = [f \in Forms |-> 0]
    /\ dispatched = [f \in Forms |-> <<>>]
    /\ refreshes = [f \in Forms |-> 0]
    /\ result = [f \in Forms |-> [kind |-> "none"]]
    /\ configured = FALSE
    /\ callno = 1
    /\ stdout = [f \in Forms |-> <<>>]
    /\ debuglog = [f \in Forms |-> <<>>]
    /\ tpc = [t \in Threads |-> "calling"]
    /\ tattempts = [t \in Threads |-> 0]
    /\ trequest = [t \in Threads |-> None]
    /\ tresponse = [t \in Threads |-> None]
    /\ tprinted = [t \in Threads |-> 0]
    /\ serialized \in BOOLEAN
    /\ DecoderIdle
    /\ StreamLoopIdle

NextThreads ==
    \/ \E t \in Threads : thread_completion_with_retry(t)
    \/ \E t \in Threads : thread_post(t)
    \/ \E t \in Threads : thread_print(t)
    \/ \E t \in Threads : thread_check_response(t)
    \/ \E t \in Threads : thread_refresh_security_token_begin(t)
    \/ \E t \in Threads : thread_refresh_security_token(t)

SpecThreads == InitThreads /\ [][NextThreads]_vars

-----------------------------------------------------------------------------
(***************************************************************************)
(* Claims about the stream decoder.                                        *)
(***************************************************************************)

\* The decoded content of a raw line contains the termination marker.
IsDoneLine(line) ==
    LET stripped == bytes_strip(line)
    IN  /\ stripped # <<>>
        /\ ~decode_raises(stripped)
        /\ contains(decode(stripped), DoneMarker)

\* Index of the first line carrying the marker (Len + 1 when there is none).
FirstDone(lines) ==
    IF \E i \in 1..Len(lines) : IsDoneLine(lines[i])
    THEN CHOOSE i \in 1..Len(lines) :
             /\ IsDoneLine(lines[i])
             /\ \A j \in 1..(i - 1) : ~IsDoneLine(lines[j])
    ELSE Len(lines) + 1

TextA == <<"A">>
TextB == <<"B">>

\* C1: the yielded sequence ends at the first line whose decoded content
\* contains [DONE]: no line after it is read from the source or yielded, and
\* the example stream yields exactly <<"A", "B">>.
C1_StopsAtDone ==
    \A m \in Forms :
        /\ dpos[m] <= FirstDone(src_lines)
        /\ (src_lines = ExampleLines /\ dpc[m] = "exhausted")
               => yielded[m] = <<TextA, TextB>>

-----------------------------------------------------------------------------
(***************************************************************************)
(* Claims about the retry-and-refresh controller.                          *)
(***************************************************************************)

\* The i-th transport dispatch of form f got a response with status st.
GotStatus(f, i, st) ==
    /\ dispatched[f][i].outcome.kind = "response"
    /\ dispatched[f][i].outcome.status = st

\* The error the caller received is, or wraps, an exception of type t.
IsOrWraps(r, t) == r.kind = "error" /\ (r.type = t \/ r.cause = t)

\* C2: with max_retries = 3 and every dispatch failing with a connect
\* timeout, a call makes exactly 4 attempts and then fails with the
\* connect-timeout error.
C2_FourAttemptsOnConnectTimeout ==
    \A f \in Forms :
        ( /\ max_retries = 3
          /\ Finished(f)
          /\ dispatched[f] # <<>>
          /\ \A i \in 1..Len(dispatched[f]) :
                 dispatched[f][i].outcome.kind = "ConnectTimeout" )
        => /\ attempts[f] = 4
           /\ Len(dispatched[f]) = 4
           /\ IsOrWraps(result[f], TransportError(f, "ConnectTimeout"))

\* C3: a 401 on an attempt below the cap, with a signer able to refresh, is
\* followed by a refresh and by exactly one further attempt whose headers
\* are built after the refresh; if that attempt gets a status < 400 the call
\* succeeds on it.
C3_RefreshThenOneMoreAttempt ==
    \A f \in Forms : \A i \in 1..Len(dispatched[f]) :
        LET d == dispatched[f][i]
        IN  ( /\ GotStatus(f, i, 401)
              /\ signer = "refreshable"
              /\ d.attempt < max_retries + 1 )
            => /\ d.refreshed
               /\ Len(dispatched[f]) = i => pc[f] = "calling"
               /\ Len(dispatched[f]) > i =>
                      LET e == dispatched[f][i + 1]
                      IN  /\ e.attempt = d.attempt + 1
                          /\ e.headers.built_in = e.attempt
                          /\ e.headers.h.token = d.cred_at + 1
                          /\ ( e.outcome.kind = "response" /\ e.outcome.status < 400 )
                                 => /\ pc[f] = "returned"
                                    /\ attempts[f] = i + 1

\* C4: a 401 when the signer cannot refresh fails the call on that attempt
\* with a ServerError carrying the response body text, without refresh and
\* without a further dispatch.
C4_Unrefreshable401IsServerError ==
    \A f \in Forms : \A i \in 1..Len(dispatched[f]) :
        ( GotStatus(f, i, 401) /\ signer # "refreshable" )
        => /\ i = Len(dispatched[f])
           /\ pc[f] = "raised"
           /\ ~dispatched[f][i].refreshed
           /\ IsOrWraps(result[f], "ServerError")
           /\ result[f].text = dispatched[f][i].outcome.text

\* C5: a status >= 400 other than 401 fails the call on that attempt with a
\* ServerError carrying the status and the response body text, and no
\* refresh is invoked.
C5_OtherErrorStatusIsTerminal ==
    \A f \in Forms : \A i \in 1..Len(dispatched[f]) :
        LET o == dispatched[f][i].outcome
        IN  ( o.kind = "response" /\ o.status >= 400 /\ o.status # 401 )
            => /\ i = Len(dispatched[f])
               /\ pc[f] = "raised"
               /\ ~dispatched[f][i].refreshed
               /\ IsOrWraps(result[f], "ServerError")
               /\ result[f].status = o.status
               /\ result[f].text = o.text

\* Every dispatch of form f so far was answered 401.
All401(f) ==
    /\ dispatched[f] # <<>>
    /\ \A i \in 1..Len(dispatched[f]) : GotStatus(f, i, 401)

\* C6: when every attempt is answered 401 and the signer always refreshes,
\* no attempt is started beyond the cap of max_retries + 1, the blocking
\* form stops exactly at the cap, and the call ends in an error.
C6_RefreshLoopBounded ==
    \A f \in Forms :
        ( signer = "refreshable" /\ All401(f) )
        => /\ attempts[f] <= max_retries + 1
           /\ pc[f] = "calling" => attempts[f] < max_retries + 1
           /\ Finished(f) => result[f].kind = "error"
           /\ ( f = "sync" /\ Finished(f) ) => attempts[f] = max_retries + 1

\* C6 witness: the blocking form was answered 401 on every one of at least
\* three attempts, refreshed each time, and raised at the cap.
C6_Witness ==
    /\ signer = "refreshable"
    /\ All401("sync")
    /\ pc["sync"] = "raised"
    /\ attempts["sync"] = max_retries + 1
    /\ attempts["sync"] >= 3
    /\ refreshes["sync"] = attempts["sync"]
    /\ result["sync"].type = "TokenExpiredError"

\* C7: a response with status in [200, 400) ends the call successfully on
\* that attempt, without refresh, and what is handed on is the decoded body
\* of that response (or the open stream, in streaming mode).
C7_SuccessPassThrough ==
    \A f \in Forms : \A i \in 1..Len(dispatched[f]) :
        LET d == dispatched[f][i]
        IN  ( /\ d.outcome.kind = "response"
              /\ 200 <= d.outcome.status
              /\ d.outcome.status < 400 )
            => /\ i = Len(dispatched[f])
               /\ pc[f] = "returned"
               /\ ~d.refreshed
               /\ IF stream
                  THEN result[f].kind = "stream"
                  ELSE /\ result[f].kind = "json"
                       /\ result[f].body = json_loads(d.outcome.text)

\* C7 witness: both forms were answered 302 on a non-streaming call and
\* each returned the decoded body of that response.
C7_Witness ==
    /\ ~stream
    /\ Len(dispatched["sync"]) = 1
    /\ Len(dispatched["async"]) = 1
    /\ GotStatus("sync", 1, 302)
    /\ GotStatus("async", 1, 302)
    /\ result["sync"] = [kind |-> "json", body |-> [choices |-> <<[text |-> "ok"]>>]]
    /\ result["async"] = [kind |-> "json", body |-> [choices |-> <<[text |-> "ok"]>>]]

\* The two forms ended the same way: both succeeded or both failed.
SameOutcome(r1, r2) == (r1.kind = "error") <=> (r2.kind = "error")

\* C8: on a client that has a signer, once both forms have finished they
\* have made the same number of attempts, invoked refresh the same number of
\* times, and ended the same way.
C8_FormsAgree ==
    ( signer # "none" /\ Finished("sync") /\ Finished("async") )
    => /\ attempts["sync"] = attempts["async"]
       /\ refreshes["sync"] = refreshes["async"]
       /\ SameOutcome(result["sync"], result["async"])

\* C9: in streaming mode a 401 at stream open, below the cap and with a
\* signer able to refresh, is followed by a refresh and a new attempt of
\* the controller, in both forms.
C9_StreamOpen401Retried ==
    \A f \in Forms : \A i \in 1..Len(dispatched[f]) :
        ( /\ stream
          /\ GotStatus(f, i, 401)
          /\ signer = "refreshable"
          /\ dispatched[f][i].attempt < max_retries + 1 )
        => /\ dispatched[f][i].refreshed
           /\ pc[f] = "calling" \/ Len(dispatched[f]) > i

\* C10: the headers sent by a dispatch were built in the attempt that sent
\* them, and a signature in them was made with the token as it was then.
C10_HeadersBuiltPerAttempt ==
    \A f \in Forms : \A i \in 1..Len(dispatched[f]) :
        LET d == dispatched[f][i]
        IN  /\ d.headers.built_in = d.attempt
            /\ d.headers.h.signed => d.headers.h.token = d.cred_at

\* C10 witness: the blocking form retried after a refresh and signed the
\* second request with the renewed token.
C10_Witness ==
    /\ Len(dispatched["sync"]) >= 2
    /\ dispatched["sync"][1].refreshed
    /\ dispatched["sync"][1].headers.h.token = 0
    /\ dispatched["sync"][2].headers.h.signed
    /\ dispatched["sync"][2].headers.h.token = 1
    /\ dispatched["sync"][2].headers.built_in = 2

-----------------------------------------------------------------------------
(***************************************************************************)
(* Claims about the client's state across calls and about what a call      *)
(* writes out.                                                             *)
(***************************************************************************)

\* The dispatch record d carried the two streaming headers.
StreamingHeaders(d) ==
    d.headers.h.enable_streaming /\ d.headers.h.accept_event_stream

\* C11: streaming is a per-call decision, not state of the client: on a
\* client constructed with streaming = false, a call entered through
\* _generate / _agenerate finds self.streaming still false, takes the
\* non-streaming path and sends no streaming headers, whatever calls were
\* made on the client before.
C11_StreamingIsPerCall ==
    \A f \in Forms :
        (entry = "_generate" /\ configured = FALSE)
        => /\ streaming[f] = FALSE
           /\ stream = FALSE
           /\ \A i \in 1..Len(dispatched[f]) : ~StreamingHeaders(dispatched[f][i])

\* C12: the request body is never written to standard output; it appears
\* only in records of debug level.
C12_BodyOnlyInDebugLog ==
    \A f \in Forms :
        /\ \A i \in 1..Len(stdout[f]) : stdout[f][i] # RequestBody
        /\ \A i \in 1..Len(debuglog[f]) : debuglog[f][i].level = "DEBUG"

-----------------------------------------------------------------------------
(***************************************************************************)
(* Claims about the events of a stream.                                    *)
(***************************************************************************)

\* The text a payload stands for: the text of a well-formed event, nothing
\* for a payload that is not JSON or lacks the expected fields.
ExpectedText(payload) ==
    CASE payload = PayloadA -> <<"A">>
      [] payload = PayloadB -> <<"B">>
      [] OTHER -> <<>>

\* The payload is not JSON, or is JSON without choices[0] as an object.
Malformed(payload) ==
    payload \notin {PayloadA, PayloadB, PayloadNoText}

\* C13: a payload that fails to parse gives an empty fragment and the
\* sequence goes on: no error reaches the caller, every payload handled so
\* far has its fragment (empty for a malformed one), so a well-formed event
\* after a malformed one is delivered with its text.
C13_MalformedEventIsEmptyFragment ==
    \A f \in Forms :
        /\ spc[f] # "raised"
        /\ Len(chunks[f]) <= Len(yielded[f])
        /\ \A k \in 1..Len(chunks[f]) :
               /\ chunks[f][k].text = ExpectedText(yielded[f][k])
               /\ Malformed(yielded[f][k]) => chunks[f][k].text = <<>>

\* C13 witness: in both forms a payload that is not JSON was followed by a
\* well-formed event, and both fragments were delivered.
C13_Witness ==
    /\ src_lines = <<LineDataA, LineJsonB>>
    /\ \A f \in Forms :
           /\ yielded[f] = <<<<"A">>, PayloadB>>
           /\ chunks[f] = <<[text |-> <<>>], [text |-> <<"B">>]>>

\* The payload of a raw line, if it has one.
LinePayload(line) ==
    IF _parse_stream_line_raises(line) THEN None ELSE _parse_stream_line(line)

\* The payloads of a sequence of raw lines, in the order of the lines.
RECURSIVE PayloadsOf(_)
PayloadsOf(lines) ==
    IF lines = <<>> THEN <<>>
    ELSE LinePayload(Head(lines)) \o PayloadsOf(Tail(lines))

\* C14: events are delivered in arrival order: the payloads yielded are
\* those of the raw lines read so far, in the order of the lines and once
\* each; the fragments reach the caller in that order, and
\* on_llm_new_token (when the caller passed a callback manager) sees their
\* texts in that order.
C14_ArrivalOrder ==
    \A f \in Forms :
        /\ yielded[f] = PayloadsOf(SubSeq(src_lines, 1, dpos[f]))
        /\ Len(chunks[f]) <= Len(yielded[f])
        /\ chunks[f] = [k \in 1..Len(chunks[f]) |-> _handle_sse_line(yielded[f][k])]
        /\ tokens[f] = IF run_manager # "none"
                       THEN [k \in 1..Len(chunks[f]) |-> chunks[f][k].text]
                       ELSE <<>>

\* C14 witness: two events separated by a blank line reached the caller
\* and the callback of a manager with a plain on_llm_new_token, A before
\* B, in both forms.
C14_Witness ==
    /\ src_lines = <<LineJsonA, LineBlank, LineJsonB>>
    /\ run_manager = "plain"
    /\ \A f \in Forms :
           /\ chunks[f] = <<[text |-> <<"A">>], [text |-> <<"B">>]>>
           /\ tokens[f] = <<<<"A">>, <<"B">>>>

\* The per-line rule as the specification states it, for a line that
\* decodes and does not carry the termination marker: trim; nothing for an
\* empty line; for a line with the data: prefix in any letter case, what
\* follows the five characters of the prefix without its leading
\* whitespace; nothing for any other line.
LineRule(line) ==
    LET text == decode(bytes_strip(line))
    IN  IF text = <<>> THEN None
        ELSE IF Len(text) >= 5 /\ lower(SubSeq(text, 1, 5)) = DataPrefix
             THEN Some(str_lstrip(SubSeq(text, 6, Len(text))))
             ELSE None

\* The lines the rule speaks about: all but those with the marker.
RuleApplies(line) ==
    decode_raises(bytes_strip(line)) \/ ~IsDoneLine(line)

\* What the rule gives for a sequence of lines it applies to.
RECURSIVE RulePayloads(_)
RulePayloads(lines) ==
    IF lines = <<>> THEN <<>>
    ELSE (IF decode_raises(bytes_strip(Head(lines))) THEN None
          ELSE LineRule(Head(lines)))
         \o RulePayloads(Tail(lines))

\* C15: every raw line is handled by the per-line rule and no line is an
\* error: over lines without the marker, the decoder never raises and has
\* yielded exactly what the rule gives for the lines read.
C15_PerLineRule ==
    \A m \in Forms :
        (\A i \in 1..dpos[m] : RuleApplies(src_lines[i]))
        => /\ dpc[m] # "raised"
           /\ yielded[m] = RulePayloads(SubSeq(src_lines, 1, dpos[m]))

\* C16: the two decoders agree on every input: having read the same
\* number of lines they have yielded the same payloads and have raised or
\* not alike, and once both have stopped they stopped at the same line, in
\* the same way, with the same payloads.
C16_DecodersAgree ==
    /\ dpos["sync"] = dpos["async"]
           => /\ yielded["sync"] = yielded["async"]
              /\ (dpc["sync"] = "raised") <=> (dpc["async"] = "raised")
    /\ (dpc["sync"] # "iterating" /\ dpc["async"] # "iterating")
           => /\ dpos["sync"] = dpos["async"]
              /\ dpc["sync"] = dpc["async"]
              /\ yielded["sync"] = yielded["async"]

\* C16 witness: both decoders ran to the end of a stream with the marker in
\* the middle and yielded the same two payloads.
C16_Witness ==
    /\ src_lines = <<LineUpper, LineDone, LineDataB>>
    /\ \A m \in Forms : dpc[m] = "exhausted" /\ yielded[m] = <<TextA, TextB>>

-----------------------------------------------------------------------------
(***************************************************************************)
(* Claims about concurrent refreshes, the status check of a stream, the    *)
(* streaming headers and the diagnostics of a retry.                       *)
(***************************************************************************)

\* The threads whose refresh is running inside the signer.
Refreshing == {t \in Threads : tpc[t] = "refreshing"}

\* C17: refreshes of the shared credential are serialized: at no time are
\* two threads inside a refresh of the same signer.
C17_RefreshesSerialized == Cardinality(Refreshing) <= 1

\* The last transport dispatch of form f got a response that passes the
\* status check.
LastStatusPassed(f) ==
    /\ dispatched[f] # <<>>
    /\ LET o == dispatched[f][Len(dispatched[f])].outcome
       IN  o.kind = "response" /\ o.status < 400

\* C18: in streaming mode the status is classified before any event is
\* yielded: a decoder runs, a payload is yielded or a fragment reaches the
\* caller only after the response of the last dispatch passed the status
\* check, and a response that failed it yields nothing.
C18_StatusBeforeEvents ==
    \A f \in Forms :
        /\ (dpc[f] # "idle" \/ dpos[f] > 0 \/ yielded[f] # <<>> \/ chunks[f] # <<>>)
               => (LastStatusPassed(f) /\ result[f].kind = "stream")
        /\ (stream /\ Finished(f) /\ ~LastStatusPassed(f))
               => (yielded[f] = <<>> /\ chunks[f] = <<>> /\ tokens[f] = <<>>)

\* C18 witness: in a streaming call both forms opened the stream on a
\* response that passed the check and delivered its first fragment.
C18_Witness ==
    /\ stream
    /\ \A f \in Forms :
           /\ LastStatusPassed(f)
           /\ result[f].kind = "stream"
           /\ chunks[f] # <<>>

\* C19: the request of every attempt carries enable-streaming: true and
\* Accept: text/event-stream exactly when the stream argument of the call
\* is set, and content-type application/json in either case.
C19_StreamingHeadersFollowStreamArgument ==
    \A f \in Forms : \A i \in 1..Len(dispatched[f]) :
        LET h == dispatched[f][i].headers.h
        IN  /\ h.enable_streaming <=> stream
            /\ h.accept_event_stream <=> stream
            /\ h.content_type = "application/json"

\* C20: every retry is preceded by a diagnostic record: when an attempt
\* has failed and the controller is about to dispatch the next one, the
\* debug log holds a record for each failed attempt, and the records carry
\* the request body, the URL, the timeout and the stream flag.
C20_RetryIsLogged ==
    \A f \in Forms :
        /\ (pc[f] = "calling" /\ attempts[f] >= 1)
               => Len(debuglog[f]) >= attempts[f]
        /\ \A i \in 1..Len(debuglog[f]) :
               /\ debuglog[f][i].payload = RequestBody
               /\ debuglog[f][i].url = Endpoint
               /\ debuglog[f][i].timeout = DEFAULT_TIME_OUT
               /\ debuglog[f][i].stream = stream

-----------------------------------------------------------------------------
(***************************************************************************)
(* Claims about terminal network failures, the attempt budget and the      *)
(* refresh on the last attempt.                                            *)
(***************************************************************************)

\* C21: a network failure that is not a connect-timeout ends the call on
\* the attempt where it occurs: it was the last dispatch, no refresh was
\* made for it, and the caller received a wrapper (RuntimeError) whose
\* cause is the original failure.
C21_OtherNetworkFailureIsTerminal ==
    \A f \in Forms : \A i \in 1..Len(dispatched[f]) :
        dispatched[f][i].outcome.kind = "ConnectionError"
        => /\ i = Len(dispatched[f])
           /\ ~dispatched[f][i].refreshed
           /\ pc[f] = "raised"
           /\ result[f].kind = "error"
           /\ result[f].type = "RuntimeError"
           /\ result[f].cause = TransportError(f, "ConnectionError")

\* C23: for every max_retries, a call never makes more than
\* max_retries + 1 transport dispatches.
C23_DispatchesWithinBudget ==
    \A f \in Forms : Len(dispatched[f]) <= max_retries + 1

\* C23 witness: with max_retries = 3 the blocking form used the whole
\* budget on 401 responses with a refresh each and then failed.
C23_Witness ==
    /\ max_retries = 3
    /\ Len(dispatched["sync"]) = 4
    /\ \A i \in 1..4 : /\ GotStatus("sync", i, 401)
                       /\ dispatched["sync"][i].refreshed
    /\ pc["sync"] = "raised"

\* C25: the credential is refreshed only when a retry will use it: for
\* max_retries >= 1, every dispatch that led to a refresh is followed by
\* another attempt of the same call (made already, or about to be made).
C25_RefreshOnlyBeforeRetry ==
    \A f \in Forms : \A i \in 1..Len(dispatched[f]) :
        (max_retries >= 1 /\ dispatched[f][i].refreshed)
        => (Len(dispatched[f]) > i \/ pc[f] = "calling")

-----------------------------------------------------------------------------
(***************************************************************************)
(* Claims about empty payloads.                                            *)
(***************************************************************************)

\* C26: the decoder never yields an empty payload.
C26_NoEmptyPayload ==
    \A m \in Forms : \A k \in 1..Len(yielded[m]) : yielded[m][k] # <<>>

\* The line decodes, does not carry the termination marker, starts with
\* the data: prefix in any letter case, and nothing but whitespace
\* follows the prefix.
PrefixOnly(line) ==
    LET stripped == bytes_strip(line)
    IN  /\ ~decode_raises(stripped)
        /\ ~contains(decode(stripped), DoneMarker)
        /\ startswith(lower(decode(stripped)), DataPrefix)
        /\ \A i \in 6..Len(stripped) : decode(stripped)[i] \in StrWhitespace

\* How many of the lines are a bare prefix; how many payloads are empty.
RECURSIVE CountPrefixOnly(_)
CountPrefixOnly(lines) ==
    IF lines = <<>> THEN 0
    ELSE (IF PrefixOnly(Head(lines)) THEN 1 ELSE 0) + CountPrefixOnly(Tail(lines))

RECURSIVE CountEmpty(_)
CountEmpty(payloads) ==
    IF payloads = <<>> THEN 0
    ELSE (IF Head(payloads) = <<>> THEN 1 ELSE 0) + CountEmpty(Tail(payloads))

\* C26, amended: a payload yielded is empty exactly for a line whose data:
\* prefix is followed by nothing but whitespace: the decoder has yielded
\* as many empty payloads as it has read such lines.
C26_EmptyPayloadOnlyForBarePrefix ==
    \A m \in Forms :
        CountEmpty(yielded[m]) = CountPrefixOnly(SubSeq(src_lines, 1, dpos[m]))

\* C26 witness: both decoders read b"data: \n", b"data:\x1f" and then
\* b"data: A" and yielded two empty payloads followed by "A".
C26_Witness ==
    /\ src_lines = <<LinePrefixOnly, LineUnitSep, LineDataA>>
    /\ \A m \in Forms : yielded[m] = <<<<>>, <<>>, TextA>>

-----------------------------------------------------------------------------
(***************************************************************************)
(* Claims about a timeout in the middle of a stream and about the text     *)
(* accumulated from a stream.                                              *)
(***************************************************************************)

\* C22: a timeout that expires while the open stream is read is retried by
\* the controller within the attempt budget of the call: when the read
\* has timed out and the budget is not used up, the call is back in the
\* controller for another attempt.
C22_MidStreamTimeoutIsRetried ==
    \A f \in Forms :
        (spc[f] = "read_timeout" /\ attempts[f] < max_retries + 1)
        => pc[f] = "calling"

\* The texts of a sequence of chunks, joined in order.
RECURSIVE JoinedText(_)
JoinedText(cs) ==
    IF cs = <<>> THEN <<>> ELSE Head(cs).text \o JoinedText(Tail(cs))

\* C24: the text accumulated for a prompt in streaming generation is the
\* in-order concatenation of the fragments of a single attempt: all the
\* fragments accumulated came from the stream of one dispatch, the last
\* one of the call, and the text is theirs joined in the order delivered.
C24_AccumulatesOneAttempt ==
    \A f \in Forms :
        /\ Cardinality(generation[f].from) <= 1
        /\ generation[f].from \subseteq {Len(dispatched[f])}
        /\ Accumulates => generation[f].text = JoinedText(chunks[f])
        /\ ~Accumulates => generation[f].text = <<>>

\* C24 witness: _generate with streaming on; the first attempt of the
\* blocking form got a 401 and was retried after a refresh, and the text
\* accumulated is "AB", the two fragments of the second attempt.
C24_Witness ==
    /\ entry = "_generate"
    /\ stream
    /\ Len(dispatched["sync"]) = 2
    /\ dispatched["sync"][1].refreshed
    /\ generation["sync"] = [text |-> <<"A", "B">>, from |-> {2}]
    /\ chunks["sync"] = <<[text |-> <<"A">>], [text |-> <<"B">>]>>

====
